---- MODULE Spec2Model ----
(***************************************************************************)
(* Provider/model selection engine and failover query dispatch of          *)
(* agent_engine (agent/engine.go, agent/query_handler.go,                  *)
(* agent/list_handler.go, conf/config.go).                                 *)
(*                                                                         *)
(* Go values are modelled as follows.                                      *)
(*   error            a sequence of strings, the chain of wrapped errors:  *)
(*                    <<>> is nil, fmt.Errorf("msg: %w", e) is <<msg>> \o e*)
(*   *ProviderConfig  the index of the record in config.Provider, 0 = nil  *)
(*   rsp (any)        a sequence of at most one record, <<>> is nil        *)
(*   *Config          a sequence of at most one document, <<>> is nil      *)
(***************************************************************************)
EXTENDS Integers, Sequences, FiniteSets, TLC

\* Bounds of the configuration documents explored.
MaxProviders == 2
MaxModelEntries == 4

\* Provider names and model ids that occur in documents and as arguments.
ProviderNames == <<"A", "B">>
ModelIds == <<"m1", "m2", "m3", "m4">>

\* The callers of Engine.DispatchAndHandle; main() is the only one.
Procs == {"p1", "p2"}
MainProc == "p1"

VARIABLES
  file,          \* the configuration document LoadConfig reads
  config,        \* Engine.config (NoConfig is the nil pointer)
  providerName,  \* Engine.providerName
  apiKey,        \* Engine.apiKey
  BaseUrl,       \* Engine.BaseUrl
  ModelId,       \* Engine.ModelId
  local,         \* per caller: the locals of QueryHandler.Handle
  calls,         \* per caller: the completion-gateway calls of its dispatch
  obs,           \* per caller: what the caller saw of its dispatch
  last           \* the last Engine operation that returned, with its result

vars == <<file, config, providerName, apiKey, BaseUrl, ModelId, local, calls, obs, last>>

engineVars == <<config, providerName, apiKey, BaseUrl, ModelId>>

----------------------------------------------------------------------------
\* Errors

Nil == <<>>

Errorf(msg) == <<msg>>

Wrap(msg, err) == <<msg>> \o err

ErrConfigNotLoaded == Errorf("config not loaded")

ErrNoProvider == Errorf("no provider configured")

ErrProviderNotFound == Errorf("provider not found")

ErrNoModel == Errorf("provider has no model")

ErrUnsupportedModel == Errorf("provider does not support model")

----------------------------------------------------------------------------
\* conf/config.go

Min(a, b) == IF a < b THEN a ELSE b

Range(s) == {s[i] : i \in 1..Len(s)}

ProviderConfig(name, key, url, models) ==
  [Name |-> name, ApiKey |-> key, BaseUrl |-> url, Model |-> models]

GetDefaultProviderLast(c) ==
  IF Len(c) = 0 THEN [provider |-> 0, err |-> ErrNoProvider]
  ELSE [provider |-> Len(c), err |-> Nil]

GetDefaultProvider(c) ==
  IF Len(c) = 0 THEN [provider |-> 0, err |-> ErrNoProvider]
  ELSE [provider |-> 1, err |-> Nil]

GetProviderByNameLast(c, name) ==
  LET hits == {i \in 1..Len(c) : c[i].Name = name}
  IN IF hits = {} THEN [provider |-> 0, err |-> ErrProviderNotFound]
     ELSE [provider |-> CHOOSE i \in hits : \A j \in hits : j <= i, err |-> Nil]

GetProviderByName(c, name) ==
  LET hits == {i \in 1..Len(c) : c[i].Name = name}
  IN IF hits = {} THEN [provider |-> 0, err |-> ErrProviderNotFound]
     ELSE [provider |-> CHOOSE i \in hits : \A j \in hits : i <= j, err |-> Nil]

GetDefaultModel(p) ==
  IF Len(p.Model) = 0 THEN [model |-> "", err |-> ErrNoModel]
  ELSE [model |-> p.Model[1], err |-> Nil]

HasModel(p, modelId) == \E i \in 1..Len(p.Model) : p.Model[i] = modelId

----------------------------------------------------------------------------
\* The configuration documents. Names and model ids are opaque strings that
\* the program only compares for equality, so documents are taken up to
\* renaming: the k-th new name (model id) of a document is the k-th entry of
\* ProviderNames (ModelIds). Record i carries the key "k<i>" and the
\* URL "u<i>", so that no two records share credentials.

MaxOf(s) == IF Len(s) = 0 THEN 0 ELSE CHOOSE m \in Range(s) : \A x \in Range(s) : x <= m

RECURSIVE Canon(_, _)
Canon(n, k) ==
  IF n = 0 THEN {<<>>}
  ELSE UNION {{Append(s, i) : i \in 1..Min(k, MaxOf(s) + 1)} : s \in Canon(n - 1, k)}

RECURSIVE Sum(_, _)
Sum(f, n) == IF n = 0 THEN 0 ELSE f[n] + Sum(f, n - 1)

Document(names, flat, lens) ==
  [i \in 1..Len(names) |->
     ProviderConfig(ProviderNames[names[i]],
                    "k" \o ToString(i),
                    "u" \o ToString(i),
                    [j \in 1..lens[i] |-> ModelIds[flat[Sum(lens, i - 1) + j]]])]

Documents ==
  UNION {UNION {{Document(names, flat, lens) :
                   lens \in {l \in [1..n -> 0..t] : Sum(l, n) = t},
                   names \in Canon(n, Len(ProviderNames)),
                   flat \in Canon(t, Len(ModelIds))} :
                t \in 0..MaxModelEntries} :
         n \in 0..MaxProviders}

\* Engine.config is a pointer: <<>> is nil, <<c>> points to the loaded document c.
NoConfig == <<>>

NameArgs == Range(ProviderNames) \cup {""}

ModelArgs == Range(ModelIds) \cup {""}

----------------------------------------------------------------------------
\* agent/engine.go

EngineState ==
  [providerName |-> providerName, apiKey |-> apiKey, BaseUrl |-> BaseUrl, ModelId |-> ModelId]

Op(op, name, model, err, pre) ==
  [op |-> op, name |-> name, model |-> model, err |-> err, pre |-> pre]

\* Lines 65-95 of NewEngineFromConfig and 173-193 of SwitchProvider: the
\* provider and the model the arguments select, or the error.
ResolveProvider(c, name, byDefault) ==
  IF byDefault /\ name = "" THEN
    LET r == GetDefaultProvider(c)
    IN IF r.err # Nil THEN [provider |-> 0, err |-> Wrap("get default provider", r.err)] ELSE r
  ELSE
    LET r == GetProviderByName(c, name)
    IN IF r.err # Nil THEN [provider |-> 0, err |-> Wrap("get provider", r.err)] ELSE r

ResolveModelUnchecked(p, modelId) ==
  IF modelId = "" THEN
    LET r == GetDefaultModel(p)
    IN IF r.err # Nil THEN [model |-> "", err |-> Wrap("get default model", r.err)] ELSE r
  ELSE [model |-> modelId, err |-> Nil]

ResolveModel(p, modelId) ==
  IF modelId = "" THEN
    LET r == GetDefaultModel(p)
    IN IF r.err # Nil THEN [model |-> "", err |-> Wrap("get default model", r.err)] ELSE r
  ELSE IF ~HasModel(p, modelId) THEN [model |-> "", err |-> ErrUnsupportedModel]
  ELSE [model |-> modelId, err |-> Nil]

GetAvailableModels ==
  IF config = NoConfig THEN [models |-> <<>>, err |-> ErrConfigNotLoaded]
  ELSE LET r == GetProviderByName(config[1], providerName)
       IN IF r.err # Nil THEN [models |-> <<>>, err |-> Wrap("get current provider", r.err)]
          ELSE [models |-> config[1][r.provider].Model, err |-> Nil]

SwitchModelErrUnchecked(modelId) ==
  IF config = NoConfig THEN ErrConfigNotLoaded
  ELSE LET r == GetProviderByName(config[1], providerName)
       IN IF r.err # Nil THEN Wrap("get current provider", r.err) ELSE Nil

\* SwitchModel without the check of lines 210-212.
SwitchModelErrNilConfig(modelId) ==
  IF config = NoConfig THEN Nil
  ELSE LET r == GetProviderByName(config[1], providerName)
       IN IF r.err # Nil THEN Wrap("get current provider", r.err)
          ELSE IF ~HasModel(config[1][r.provider], modelId) THEN ErrUnsupportedModel
          ELSE Nil

\* The error of SwitchModel(modelId); nil when it assigns.
SwitchModelErr(modelId) ==
  IF config = NoConfig THEN ErrConfigNotLoaded
  ELSE LET r == GetProviderByName(config[1], providerName)
       IN IF r.err # Nil THEN Wrap("get current provider", r.err)
          ELSE IF ~HasModel(config[1][r.provider], modelId) THEN ErrUnsupportedModel
          ELSE Nil

----------------------------------------------------------------------------
\* agent/query_handler.go, agent/list_handler.go

\* The cap on the models one dispatch tries.
MaxAttempts == 3

\* Texts are sequences of one-character strings. encoding/json is modelled
\* on them as its scanner and decoder work: the text is cut into tokens, the
\* token sequence is checked against the JSON grammar with a stack of open
\* objects and arrays, and the decoder walks the tokens of a valid text.
\* \u escapes and bytes that are not valid UTF-8 are not modelled; no text
\* explored contains them.
Whitespace == {" ", "\t", "\n", "\r"}

Digits == {"0", "1", "2", "3", "4", "5", "6", "7", "8", "9"}

At(t, i) == IF i >= 1 /\ i <= Len(t) THEN t[i] ELSE ""

StartsWith(t, i, word) == i + Len(word) - 1 <= Len(t) /\ SubSeq(t, i, i + Len(word) - 1) = word

RECURSIVE DigitsEnd(_, _)
DigitsEnd(t, i) == IF At(t, i) \in Digits THEN DigitsEnd(t, i + 1) ELSE i

\* The parts of a number literal: the position after the part that starts
\* at i, 0 when the text is no number there (i = 0: it already was none).
IntEnd(t, i) ==
  IF At(t, i) = "0" THEN i + 1
  ELSE IF At(t, i) \in Digits THEN DigitsEnd(t, i + 1)
  ELSE 0

FracEnd(t, i) ==
  IF i = 0 THEN 0
  ELSE IF At(t, i) # "." THEN i
  ELSE IF At(t, i + 1) \in Digits THEN DigitsEnd(t, i + 1)
  ELSE 0

ExpEnd(t, i) ==
  IF i = 0 THEN 0
  ELSE IF At(t, i) \notin {"e", "E"} THEN i
  ELSE IF At(t, i + 1) \in {"+", "-"} /\ At(t, i + 2) \in Digits THEN DigitsEnd(t, i + 2)
  ELSE IF At(t, i + 1) \in Digits THEN DigitsEnd(t, i + 1)
  ELSE 0

\* The position after the number literal that starts at i, 0 when there is none.
NumberEnd(t, i) == ExpEnd(t, FracEnd(t, IntEnd(t, IF At(t, i) = "-" THEN i + 1 ELSE i)))

\* The character a backslash escape stands for.
Unescape(c) ==
  CASE c = "n" -> "\n"
    [] c = "t" -> "\t"
    [] c = "r" -> "\r"
    [] OTHER -> c

\* The string literal whose opening quote is before position i: its decoded
\* characters and the position after its closing quote.
RECURSIVE ScanString(_, _, _)
ScanString(t, i, acc) ==
  IF i > Len(t) THEN [ok |-> FALSE, next |-> i, str |-> acc]
  ELSE IF t[i] = "\"" THEN [ok |-> TRUE, next |-> i + 1, str |-> acc]
  ELSE IF t[i] = "\\" THEN
    IF At(t, i + 1) \in {"\"", "\\", "/", "n", "t", "r"}
    THEN ScanString(t, i + 2, Append(acc, Unescape(t[i + 1])))
    ELSE [ok |-> FALSE, next |-> i, str |-> acc]
  ELSE IF t[i] \in {"\t", "\n", "\r"} THEN [ok |-> FALSE, next |-> i, str |-> acc]
  ELSE ScanString(t, i + 1, Append(acc, t[i]))

Token(kind, str) == [t |-> kind, s |-> str]

RECURSIVE Tokenize(_, _, _)
Tokenize(t, i, acc) ==
  IF i > Len(t) THEN [ok |-> TRUE, toks |-> acc]
  ELSE IF t[i] \in Whitespace THEN Tokenize(t, i + 1, acc)
  ELSE IF t[i] \in {"{", "}", "[", "]", ":", ","} THEN
    Tokenize(t, i + 1, Append(acc, Token(t[i], <<>>)))
  ELSE IF t[i] = "\"" THEN
    LET lit == ScanString(t, i + 1, <<>>)
    IN IF lit.ok THEN Tokenize(t, lit.next, Append(acc, Token("string", lit.str)))
       ELSE [ok |-> FALSE, toks |-> acc]
  ELSE IF t[i] = "-" \/ t[i] \in Digits THEN
    IF NumberEnd(t, i) = 0 THEN [ok |-> FALSE, toks |-> acc]
    ELSE Tokenize(t, NumberEnd(t, i), Append(acc, Token("number", <<>>)))
  ELSE IF StartsWith(t, i, <<"t", "r", "u", "e">>) THEN
    Tokenize(t, i + 4, Append(acc, Token("true", <<>>)))
  ELSE IF StartsWith(t, i, <<"f", "a", "l", "s", "e">>) THEN
    Tokenize(t, i + 5, Append(acc, Token("false", <<>>)))
  ELSE IF StartsWith(t, i, <<"n", "u", "l", "l">>) THEN
    Tokenize(t, i + 4, Append(acc, Token("null", <<>>)))
  ELSE [ok |-> FALSE, toks |-> acc]

Scalars == {"string", "number", "true", "false", "null"}

\* The grammar check of the scanner: stack holds the open objects and
\* arrays, innermost first, and step is what the scanner expects next.
RECURSIVE Grammar(_, _, _, _)
Grammar(toks, i, stack, step) ==
  IF i > Len(toks) THEN step = "end" /\ stack = <<>>
  ELSE
    LET k == toks[i].t
        closed == IF Len(stack) = 1 THEN "end"
                  ELSE IF stack[2] = "{" THEN "objectComma" ELSE "arrayComma"
        after == IF stack = <<>> THEN "end"
                 ELSE IF stack[1] = "{" THEN "objectComma" ELSE "arrayComma"
    IN CASE step \in {"value", "valueOrClose"} ->
              IF k = "]" /\ step = "valueOrClose" THEN Grammar(toks, i + 1, Tail(stack), closed)
              ELSE IF k \in Scalars THEN Grammar(toks, i + 1, stack, after)
              ELSE IF k = "{" THEN Grammar(toks, i + 1, <<"{">> \o stack, "keyOrClose")
              ELSE IF k = "[" THEN Grammar(toks, i + 1, <<"[">> \o stack, "valueOrClose")
              ELSE FALSE
         [] step \in {"key", "keyOrClose"} ->
              IF k = "}" /\ step = "keyOrClose" THEN Grammar(toks, i + 1, Tail(stack), closed)
              ELSE IF k = "string" THEN Grammar(toks, i + 1, stack, "colon")
              ELSE FALSE
         [] step = "colon" -> k = ":" /\ Grammar(toks, i + 1, stack, "value")
         [] step = "objectComma" ->
              IF k = "," THEN Grammar(toks, i + 1, stack, "key")
              ELSE IF k = "}" THEN Grammar(toks, i + 1, Tail(stack), closed)
              ELSE FALSE
         [] step = "arrayComma" ->
              IF k = "," THEN Grammar(toks, i + 1, stack, "value")
              ELSE IF k = "]" THEN Grammar(toks, i + 1, Tail(stack), closed)
              ELSE FALSE
         [] OTHER -> FALSE

\* json.Valid
JsonValid(params) ==
  LET lexed == Tokenize(params, 1, <<>>)
  IN lexed.ok /\ Grammar(lexed.toks, 1, <<>>, "value")

ErrUnmarshalType == Errorf("json: cannot unmarshal into Go value of type QueryReq")

Lower(c) ==
  CASE c = "Q" -> "q" [] c = "U" -> "u" [] c = "E" -> "e" [] c = "R" -> "r" [] c = "Y" -> "y"
    [] OTHER -> c

\* The key names the field Query, whose tag is "query": the decoder matches
\* the name exactly or ignoring case.
IsQueryKey(key) == [i \in 1..Len(key) |-> Lower(key[i])] = <<"q", "u", "e", "r", "y">>

\* The decoder on the members of the top-level object: a string member named
\* query sets Query, a null one leaves it, one of any other type is a type
\* error, which is kept while decoding goes on; other members are skipped.
RECURSIVE DecodeMembers(_, _, _, _, _)
DecodeMembers(toks, i, depth, step, req) ==
  IF i > Len(toks) THEN req
  ELSE
    LET k == toks[i].t
    IN IF depth > 1 THEN
         DecodeMembers(toks, i + 1,
                       IF k \in {"{", "["} THEN depth + 1
                       ELSE IF k \in {"}", "]"} THEN depth - 1 ELSE depth,
                       step, req)
       ELSE IF k = "}" THEN req
       ELSE IF k = "," THEN DecodeMembers(toks, i + 1, 1, "key", req)
       ELSE IF k = ":" THEN DecodeMembers(toks, i + 1, 1, "value", req)
       ELSE IF step = "key" THEN DecodeMembers(toks, i + 1, 1, step, [req EXCEPT !.key = toks[i].s])
       ELSE
         DecodeMembers(toks, i + 1, IF k \in {"{", "["} THEN 2 ELSE 1, step,
                       IF ~IsQueryKey(req.key) \/ k = "null" THEN req
                       ELSE IF k = "string" THEN [req EXCEPT !.Query = toks[i].s]
                       ELSE [req EXCEPT !.err = IF @ = Nil THEN ErrUnmarshalType ELSE @])

\* json.Unmarshal taking every valid text that is no object for an empty request.
JsonUnmarshalLenient(params) ==
  LET toks == Tokenize(params, 1, <<>>).toks
      req == DecodeMembers(toks, 2, 1, "key", [key |-> <<>>, Query |-> <<>>, err |-> Nil])
  IN IF toks[1].t = "{" THEN [Query |-> req.Query, err |-> req.err]
     ELSE [Query |-> <<>>, err |-> Nil]

\* json.Unmarshal of a valid text into struct{Query string `json:"query"`}.
JsonUnmarshal(params) ==
  LET toks == Tokenize(params, 1, <<>>).toks
      req == DecodeMembers(toks, 2, 1, "key", [key |-> <<>>, Query |-> <<>>, err |-> Nil])
  IN IF toks[1].t = "{" THEN [Query |-> req.Query, err |-> req.err]
     ELSE IF toks[1].t = "null" THEN [Query |-> <<>>, err |-> Nil]
     ELSE [Query |-> <<>>, err |-> ErrUnmarshalType]

\* Lines 19-32 of Handle taking the params as the prompt whatever they are.
ParseQueryVerbatim(params) == [query |-> params, err |-> Nil]

\* Lines 19-32 of Handle: the prompt of the params, or the decoding error.
ParseQuery(params) ==
  IF JsonValid(params)
  THEN LET req == JsonUnmarshal(params) IN [query |-> req.Query, err |-> req.err]
  ELSE [query |-> params, err |-> Nil]

\* A JSON text of an object whose member query is the string q.
Escape(c) ==
  CASE c = "\"" -> <<"\\", "\"">>
    [] c = "\\" -> <<"\\", "\\">>
    [] c = "\n" -> <<"\\", "n">>
    [] c = "\t" -> <<"\\", "t">>
    [] c = "\r" -> <<"\\", "r">>
    [] OTHER -> <<c>>

RECURSIVE Quote(_)
Quote(q) == IF q = <<>> THEN <<>> ELSE Escape(Head(q)) \o Quote(Tail(q))

QueryObject(q) ==
  <<"{", "\"", "q", "u", "e", "r", "y", "\"", ":", "\"">> \o Quote(q) \o <<"\"", "}">>

PlainText == <<"h", "i">>

\* The params texts of the dispatches of main(): a plain prompt and a JSON
\* number. SpecParams explores the other texts.
ParamTexts == {PlainText, <<"4", "2">>}

\* Prompt texts that are not JSON: plain, empty, with a quote, with a
\* backslash, with a line break, and one that starts like an object.
PromptTexts ==
  {PlainText, <<>>, <<"h", "\"", "i">>, <<"h", "\\", "n">>, <<"h", "\n", "i">>,
   <<"{", "h", "i">>}

\* Params that are JSON texts of every top-level type, with the member
\* query of different types, under another spelling, absent and repeated.
JsonTexts ==
  {<<"4", "2">>, <<" ", "-", "0", ".", "5", "e", "1", " ">>, <<"n", "u", "l", "l">>,
   <<"t", "r", "u", "e">>, <<"\"", "h", "i", "\"">>, <<"[", "\"", "h", "i", "\"", "]">>,
   <<"{", "}">>, <<"{", "\"", "q", "\"", ":", "\"", "h", "i", "\"", "}">>,
   <<"{", "\"", "q", "u", "e", "r", "y", "\"", ":", "4", "2", "}">>,
   <<"{", "\"", "q", "u", "e", "r", "y", "\"", ":", "n", "u", "l", "l", "}">>,
   <<"{", "\"", "Q", "u", "e", "r", "y", "\"", ":", " ", "\"", "h", "i", "\"", "}">>,
   <<"{", "\"", "q", "\"", ":", "[", "{", "}", "]", ",",
     "\"", "q", "u", "e", "r", "y", "\"", ":", "\"", "h", "i", "\"", "}">>,
   <<"{", "\"", "q", "u", "e", "r", "y", "\"", ":", "\"", "a", "\"", ",",
     "\"", "q", "u", "e", "r", "y", "\"", ":", "\"", "h", "i", "\"", "}">>}

AllParamTexts == PromptTexts \cup {QueryObject(q) : q \in PromptTexts} \cup JsonTexts

MaxAttemptsUncapped(n) == n

MaxAttemptsFixed(n) == MaxAttempts

MaxAttemptsOne(n) == IF n < 1 THEN n ELSE 1

MaxAttemptsOf(n) == IF n < MaxAttempts THEN n ELSE MaxAttempts

UntriedModelsUnfiltered(availableModels, triedModels) == availableModels

UntriedModels(availableModels, triedModels) ==
  SelectSeq(availableModels, LAMBDA model : model \notin triedModels)

\* The error value of the completion gateway at the attempt-th iteration.
GatewayErr(attempt) == Errorf("gateway call " \o ToString(attempt) \o " failed")

ErrAllFailed(lastErr) == Wrap("all model calls failed, last error", lastErr)

\* Line 133 formats the function's err, which line 42 left nil, with %+v:
\* nothing is wrapped.
ErrUnknown == Errorf("unknown error: no attempt succeeded: <nil>")

\* The outcomes of client.Chat.Completions.New: a completion with a choice,
\* an error, or a completion without choices (Choices[0] then panics).
Outcomes == {"ok", "fail", "empty"}

DeferredNoRestore(originalModelId, current) == current

\* What the deferred function of lines 36-39 leaves in engine.ModelId.
Deferred(originalModelId, current) == originalModelId

InitLocal ==
  [pc |-> "idle", query |-> <<>>, originalModelId |-> "", availableModels |-> <<>>,
   triedModels |-> {}, maxAttempts |-> 0, attempt |-> 0, lastErr |-> Nil]

NoEngine == [providerName |-> "", apiKey |-> "", BaseUrl |-> "", ModelId |-> ""]

Set(f, p, v) == [f EXCEPT ![p] = v]

NoObs ==
  [event |-> "", params |-> <<>>, status |-> "none", match |-> FALSE, pre |-> NoEngine,
   rsp |-> <<>>, err |-> Nil, response |-> "none"]

NewEngineFromConfig(name, modelId) ==
  /\ last.op = "start"
  /\ LET rp == ResolveProvider(file, name, TRUE)
         rm == IF rp.err # Nil THEN [model |-> "", err |-> rp.err]
               ELSE ResolveModel(file[rp.provider], modelId)
     IN /\ IF rm.err # Nil
           THEN UNCHANGED engineVars
           ELSE /\ ModelId' = rm.model
                /\ BaseUrl' = file[rp.provider].BaseUrl
                /\ apiKey' = file[rp.provider].ApiKey
                /\ config' = <<file>>
                /\ providerName' = file[rp.provider].Name
        /\ last' = Op("NewEngineFromConfig", name, modelId, rm.err, EngineState)
  /\ UNCHANGED <<file, local, calls, obs>>

\* SwitchProvider without the assignments of lines 197-198.
SwitchProviderKeepsCredentials(name, modelId) ==
  LET rp == IF config = NoConfig THEN [provider |-> 0, err |-> ErrConfigNotLoaded]
            ELSE ResolveProvider(config[1], name, FALSE)
      rm == IF rp.err # Nil THEN [model |-> "", err |-> rp.err]
            ELSE ResolveModel(config[1][rp.provider], modelId)
  IN IF rm.err # Nil THEN [err |-> rm.err, engine |-> EngineState]
     ELSE [err |-> Nil,
           engine |-> [providerName |-> config[1][rp.provider].Name,
                       apiKey |-> apiKey,
                       BaseUrl |-> BaseUrl,
                       ModelId |-> rm.model]]

\* SwitchProvider assigning the provider's fields before it has checked the model.
SwitchProviderAssignEarly(name, modelId) ==
  LET rp == IF config = NoConfig THEN [provider |-> 0, err |-> ErrConfigNotLoaded]
            ELSE ResolveProvider(config[1], name, FALSE)
      rm == IF rp.err # Nil THEN [model |-> "", err |-> rp.err]
            ELSE ResolveModel(config[1][rp.provider], modelId)
  IN IF rp.err # Nil THEN [err |-> rp.err, engine |-> EngineState]
     ELSE [err |-> rm.err,
           engine |-> [providerName |-> config[1][rp.provider].Name,
                       apiKey |-> config[1][rp.provider].ApiKey,
                       BaseUrl |-> config[1][rp.provider].BaseUrl,
                       ModelId |-> IF rm.err # Nil THEN ModelId ELSE rm.model]]

\* What SwitchProvider(name, modelId) returns and the fields it leaves in
\* the engine: lines 169-201.
SwitchProviderOutcome(name, modelId) ==
  LET rp == IF config = NoConfig THEN [provider |-> 0, err |-> ErrConfigNotLoaded]
            ELSE ResolveProvider(config[1], name, FALSE)
      rm == IF rp.err # Nil THEN [model |-> "", err |-> rp.err]
            ELSE ResolveModel(config[1][rp.provider], modelId)
  IN IF rm.err # Nil THEN [err |-> rm.err, engine |-> EngineState]
     ELSE [err |-> Nil,
           engine |-> [providerName |-> config[1][rp.provider].Name,
                       apiKey |-> config[1][rp.provider].ApiKey,
                       BaseUrl |-> config[1][rp.provider].BaseUrl,
                       ModelId |-> rm.model]]

SwitchProvider(name, modelId) ==
  /\ LET out == SwitchProviderOutcome(name, modelId)
     IN /\ providerName' = out.engine.providerName
        /\ apiKey' = out.engine.apiKey
        /\ BaseUrl' = out.engine.BaseUrl
        /\ ModelId' = out.engine.ModelId
        /\ last' = Op("SwitchProvider", name, modelId, out.err, EngineState)
  /\ UNCHANGED <<file, config, local, calls, obs>>

\* SwitchModel passing its checks without the assignment of line 226.
SwitchModelOutcomeStale(modelId) ==
  [err |-> SwitchModelErr(modelId), ModelId |-> ModelId]

\* What SwitchModel(modelId) returns and the model id it leaves: lines 210-228.
SwitchModelOutcome(modelId) ==
  LET err == SwitchModelErr(modelId)
  IN [err |-> err, ModelId |-> IF err = Nil THEN modelId ELSE ModelId]

SwitchModel(modelId) ==
  /\ LET out == SwitchModelOutcome(modelId)
     IN /\ ModelId' = out.ModelId
        /\ last' = Op("SwitchModel", "", modelId, out.err, EngineState)
  /\ UNCHANGED <<file, config, providerName, apiKey, BaseUrl, local, calls, obs>>

\* The caller p enters DispatchAndHandle with the event "query": lines 19-58
\* of QueryHandler.Handle.
QueryBegin(p, params) ==
  /\ local[p].pc = "idle"
  /\ LET parsed == ParseQuery(params)
         models == GetAvailableModels
         entered == [NoObs EXCEPT !.event = "query", !.params = params, !.match = TRUE,
                                  !.pre = EngineState]
         frame == [InitLocal EXCEPT !.query = parsed.query]
     IN IF parsed.err # Nil THEN
          /\ local' = Set(local, p, frame)
          /\ obs' = Set(obs, p, [entered EXCEPT !.status = "returned", !.err = parsed.err])
          /\ calls' = Set(calls, p, <<>>)
          /\ last' = Op("query", "", "", parsed.err, EngineState)
          /\ UNCHANGED ModelId
        ELSE IF models.err # Nil THEN
          /\ local' = Set(local, p, [frame EXCEPT !.originalModelId = ModelId])
          /\ obs' = Set(obs, p, [entered EXCEPT !.status = "returned",
                                                !.err = Wrap("get available models", models.err)])
          /\ calls' = Set(calls, p, <<>>)
          /\ last' = Op("query", "", "", Wrap("get available models", models.err), EngineState)
          /\ ModelId' = Deferred(ModelId, ModelId)
        ELSE
          /\ local' = Set(local, p, [frame EXCEPT !.pc = "loop",
                                                  !.originalModelId = ModelId,
                                                  !.availableModels = models.models,
                                                  !.triedModels = {ModelId},
                                                  !.maxAttempts = MaxAttemptsOf(Len(models.models)),
                                                  !.attempt = 1])
          /\ obs' = Set(obs, p, [entered EXCEPT !.status = "running"])
          /\ calls' = Set(calls, p, <<>>)
          /\ last' = Op("query", "", "", Nil, EngineState)
          /\ UNCHANGED ModelId
  /\ UNCHANGED <<file, config, providerName, apiKey, BaseUrl>>

\* Handle returns (or unwinds): the deferred function runs, the caller sees rsp and err.
QueryReturn(p, frame, cs, rsp, err, status) ==
  /\ ModelId' = Deferred(frame.originalModelId, ModelId)
  /\ local' = [local EXCEPT ![p] = [frame EXCEPT !.pc = "idle"]]
  /\ calls' = [calls EXCEPT ![p] = cs]
  /\ obs' = [obs EXCEPT ![p].status = status, ![p].rsp = rsp, ![p].err = err]
  /\ last' = [last EXCEPT !.err = err]
  /\ UNCHANGED <<file, config, providerName, apiKey, BaseUrl>>

\* The gateway called with the credentials of the first configured record.
GatewayCallFirstRecord(key, url, model, prompt) ==
  [apiKey |-> config[1][1].ApiKey, baseUrl |-> config[1][1].BaseUrl, model |-> model,
   prompt |-> prompt, outcome |-> "pending", err |-> Nil]

\* Lines 95-99: the gateway is called with the engine's key, URL and model
\* and with the prompt.
GatewayCall(key, url, model, prompt) ==
  [apiKey |-> key, baseUrl |-> url, model |-> model, prompt |-> prompt,
   outcome |-> "pending", err |-> Nil]

\* One iteration of the loop up to the gateway call: lines 61-99.
QueryAttempt(p) ==
  /\ local[p].pc = "loop"
  /\ LET f == local[p]
         untriedModels == UntriedModels(f.availableModels, f.triedModels)
     IN IF f.attempt > f.maxAttempts \/ (f.attempt > 1 /\ Len(untriedModels) = 0) THEN
          QueryReturn(p, f, calls[p], <<>>, ErrUnknown, "returned")
        ELSE IF f.attempt = 1 THEN
          /\ local' = [local EXCEPT ![p].pc = "wait"]
          /\ calls' = [calls EXCEPT ![p] = Append(@, GatewayCall(apiKey, BaseUrl, ModelId, f.query))]
          /\ UNCHANGED <<file, engineVars, obs, last>>
        ELSE
          \E i \in 1..Len(untriedModels) :
            LET newModelId == untriedModels[i]
            IN IF SwitchModelErr(newModelId) # Nil THEN
                 /\ local' = [local EXCEPT ![p].attempt = @ + 1]
                 /\ UNCHANGED <<file, engineVars, calls, obs, last>>
               ELSE
                 /\ ModelId' = newModelId
                 /\ local' = [local EXCEPT ![p].pc = "wait",
                                           ![p].triedModels = @ \cup {newModelId}]
                 /\ calls' = [calls EXCEPT ![p] = Append(@, GatewayCall(apiKey, BaseUrl, newModelId, f.query))]
                 /\ UNCHANGED <<file, config, providerName, apiKey, BaseUrl, obs, last>>

\* The result map counting the attempts from zero.
QueryResultZeroBased(query, attempt) ==
  [query |-> query, reply |-> "reply", think |-> "", model_used |-> ModelId,
   provider_used |-> providerName, attempts |-> attempt - 1]

\* The map built by lines 118-129 of query_handler.go.
QueryResult(query, attempt) ==
  [query |-> query, reply |-> "reply", think |-> "", model_used |-> ModelId,
   provider_used |-> providerName, attempts |-> attempt]

\* The gateway call of p comes back: lines 101-130.
QueryReply(p, outcome) ==
  /\ local[p].pc = "wait"
  /\ LET f == local[p]
         err == IF outcome = "fail" THEN GatewayErr(f.attempt) ELSE Nil
         cs == [calls[p] EXCEPT ![Len(calls[p])].outcome = outcome, ![Len(calls[p])].err = err]
         failed == [f EXCEPT !.lastErr = err]
     IN CASE outcome = "fail" ->
               IF f.attempt < f.maxAttempts THEN
                 /\ local' = [local EXCEPT ![p] = [failed EXCEPT !.pc = "loop", !.attempt = @ + 1]]
                 /\ calls' = [calls EXCEPT ![p] = cs]
                 /\ UNCHANGED <<file, engineVars, obs, last>>
               ELSE QueryReturn(p, failed, cs, <<>>, ErrAllFailed(failed.lastErr), "returned")
          [] outcome = "ok" ->
               QueryReturn(p, f, cs, <<QueryResult(f.query, f.attempt)>>, Nil, "returned")
          [] outcome = "empty" ->
               QueryReturn(p, f, cs, <<>>, Nil, "panicked")

\* GetAllModels and GetAllProvidersInfo build maps keyed by name: a later
\* record of the same name replaces an earlier one.
LastByName(c, name) ==
  CHOOSE i \in 1..Len(c) : c[i].Name = name /\ \A j \in 1..Len(c) : c[j].Name = name => j <= i

GetAvailableProviders(c) == [i \in 1..Len(c) |-> c[i].Name]

GetAllModels(c) == [name \in {c[i].Name : i \in 1..Len(c)} |-> c[LastByName(c, name)].Model]

GetAllProvidersInfo(c) == [name \in {c[i].Name : i \in 1..Len(c)} |-> LastByName(c, name)]

ConfigPath == "/abs/config.yaml"

\* The list view reporting the default provider's URL as the current one.
ListResultDefaultUrl(c) ==
  LET providers == GetAvailableProviders(c)
      allModels == GetAllModels(c)
      allProvidersInfo == GetAllProvidersInfo(c)
  IN [config_path |-> ConfigPath,
      current_provider |-> providerName,
      current_model |-> ModelId,
      current_base_url |-> c[1].BaseUrl,
      providers |-> [i \in 1..Len(providers) |->
                       [name |-> providers[i],
                        base_url |-> c[allProvidersInfo[providers[i]]].BaseUrl,
                        models |-> allModels[providers[i]],
                        is_current |-> providers[i] = providerName]],
      total_providers |-> Len(providers)]

\* The map built by lines 55-79 of list_handler.go.
ListResult(c) ==
  LET providers == GetAvailableProviders(c)
      allModels == GetAllModels(c)
      allProvidersInfo == GetAllProvidersInfo(c)
  IN [config_path |-> ConfigPath,
      current_provider |-> providerName,
      current_model |-> ModelId,
      current_base_url |-> BaseUrl,
      providers |-> [i \in 1..Len(providers) |->
                       [name |-> providers[i],
                        base_url |-> c[allProvidersInfo[providers[i]]].BaseUrl,
                        models |-> allModels[providers[i]],
                        is_current |-> providers[i] = providerName]],
      total_providers |-> Len(providers)]

\* The caller p enters DispatchAndHandle with the event "list".
ListHandle(p) ==
  /\ local[p].pc = "idle"
  /\ LET err == IF config = NoConfig THEN ErrConfigNotLoaded ELSE Nil
         rsp == IF err # Nil THEN <<>> ELSE <<ListResult(config[1])>>
         seen == [NoObs EXCEPT !.event = "list", !.status = "returned", !.match = TRUE,
                               !.pre = EngineState, !.rsp = rsp, !.err = err]
     IN /\ obs' = Set(obs, p, seen)
        /\ last' = Op("list", "", "", err, EngineState)
  /\ UNCHANGED <<file, engineVars, local, calls>>

\* The registry without the list handler.
eventHandlerMapQueryOnly == {"query"}

\* The events the registry of lines 10-16 of engine.go has a handler for.
eventHandlerMap == {"query", "list"}

\* The event names a caller passes: the registered ones and one that is not.
Events == {"query", "list", "unknown"}

\* Engine.DispatchAndHandle: lines 272-280 of engine.go. The handler of a
\* registered event is entered and its result is the result of the dispatch;
\* for any other event match stays false and rsp and err stay nil.
DispatchAndHandle(p, event, params) ==
  IF event \in eventHandlerMap THEN
    IF event = "query" THEN QueryBegin(p, params) ELSE ListHandle(p)
  ELSE
    /\ local[p].pc = "idle"
    /\ obs' = Set(obs, p, [NoObs EXCEPT !.event = event, !.status = "returned",
                                         !.pre = EngineState])
    /\ last' = Op(event, "", "", Nil, EngineState)
    /\ UNCHANGED <<file, engineVars, local, calls>>

\* The getters of Engine: lines 114-160 and 234-261 of engine.go.
Getters ==
  {"GetAvailableProviders", "GetAvailableModels", "GetAllModels", "GetAllProvidersInfo",
   "GetCurrentProviderName"}

\* The error a getter returns. GetCurrentProviderName has no error result
\* and no check of engine.config.
GetterErr(getter) ==
  CASE getter = "GetCurrentProviderName" -> Nil
    [] getter = "GetAvailableModels" -> GetAvailableModels.err
    [] OTHER -> IF config = NoConfig THEN ErrConfigNotLoaded ELSE Nil

\* A call of a getter; GetCurrentProviderName returns the provider name.
Getter(getter) ==
  /\ last' = Op(getter, IF getter = "GetCurrentProviderName" THEN providerName ELSE "", "",
                GetterErr(getter), EngineState)
  /\ UNCHANGED <<file, engineVars, local, calls, obs>>

\* The caller has taken the result of the last operation and goes on to
\* the next one: the record of the last operation is dropped.
NoOp == Op("none", "", "", Nil, NoEngine)

Proceed ==
  /\ last # NoOp
  /\ local' = [p \in Procs |-> InitLocal]
  /\ calls' = [p \in Procs |-> <<>>]
  /\ obs' = [p \in Procs |-> NoObs]
  /\ last' = NoOp
  /\ UNCHANGED <<file, engineVars>>

----------------------------------------------------------------------------
Init ==
  /\ file \in Documents
  /\ config = NoConfig
  /\ providerName = ""
  /\ apiKey = ""
  /\ BaseUrl = ""
  /\ ModelId = ""
  /\ local = [p \in Procs |-> InitLocal]
  /\ calls = [p \in Procs |-> <<>>]
  /\ obs = [p \in Procs |-> NoObs]
  /\ last = Op("start", "", "", Nil, NoEngine)

Initialized == config # NoConfig

AllIdle == \A p \in Procs : local[p].pc = "idle"

\* The engine exists and no operation on it is under way or unacknowledged.
Ready == Initialized /\ AllIdle /\ last = NoOp

\* main() is single-threaded: one operation at a time, one caller.
Next ==
  \/ \E name \in NameArgs, modelId \in ModelArgs : NewEngineFromConfig(name, modelId)
  \/ \E name \in NameArgs, modelId \in ModelArgs : Ready /\ SwitchProvider(name, modelId)
  \/ \E modelId \in ModelArgs : Ready /\ SwitchModel(modelId)
  \/ \E event \in Events, params \in ParamTexts :
       Ready /\ DispatchAndHandle(MainProc, event, params)
  \/ QueryAttempt(MainProc)
  \/ \E outcome \in Outcomes : QueryReply(MainProc, outcome)
  \/ Initialized /\ AllIdle /\ Proceed

Spec == Init /\ [][Next]_vars

\* main.go. The values of the --extract flag, as path segments: the default
\* "$", the empty text, and paths with and without the leading "$.".
Extracts == {<<"$">>, <<>>, <<"$", "data", "reply">>, <<"data", "attempts">>, <<"$", "nope">>}

\* Lines 180-184: the "$." in front of the path is dropped.
TrimPrefix(extract) ==
  IF Len(extract) > 1 /\ Head(extract) = "$" THEN Tail(extract) ELSE extract

\* Lines 187-188: the path names a value of {code, data, message}, data
\* being the result map of the query handler.
PathExists(path, data) ==
  \/ Len(path) = 1 /\ path[1] \in {"code", "data", "message"}
  \/ Len(path) = 2 /\ path[1] = "data" /\ data # <<>> /\ path[2] \in DOMAIN data[1]

\* What main() writes for the results of DispatchAndHandle: lines 150-199.
ShellResponse(o, extract) ==
  IF o.err # Nil THEN
    IF ~o.match THEN "EventNotFound" ELSE "InternalError"
  ELSE IF o.event = "query" /\ extract # <<>> /\ extract # <<"$">> THEN
    IF PathExists(TrimPrefix(extract), o.rsp) THEN "value" ELSE "InternalError"
  ELSE "Success"

\* main() writes its response: after a failed NewEngineFromConfig (lines
\* 141-145) or after DispatchAndHandle has returned.
Respond(p, extract) ==
  LET initFailed == last.op = "NewEngineFromConfig" /\ last.err # Nil
  IN /\ obs[p].response = "none"
     /\ initFailed \/ obs[p].status = "returned"
     /\ obs' = [obs EXCEPT ![p].response = IF initFailed THEN "InternalError"
                                           ELSE ShellResponse(obs[p], extract)]
     /\ UNCHANGED <<file, engineVars, local, calls, last>>

\* One run of main(): the engine is constructed, one command is dispatched
\* and the response is written.
NextShell ==
  \/ \E name \in NameArgs, modelId \in ModelArgs : NewEngineFromConfig(name, modelId)
  \/ \E event \in Events, params \in ParamTexts :
       /\ Initialized /\ last.op = "NewEngineFromConfig"
       /\ DispatchAndHandle(MainProc, event, params)
  \/ QueryAttempt(MainProc)
  \/ \E outcome \in Outcomes : QueryReply(MainProc, outcome)
  \/ \E extract \in Extracts : Respond(MainProc, extract)

SpecShell == Init /\ [][NextShell]_vars

\* An Engine value that NewEngineFromConfig did not construct: config is nil
\* and the unexported fields are empty; the exported fields are the caller's.
InitUnloaded ==
  /\ file = <<>>
  /\ config = NoConfig
  /\ providerName = ""
  /\ apiKey = ""
  /\ BaseUrl \in {"", "u1"}
  /\ ModelId \in ModelArgs
  /\ local = [p \in Procs |-> InitLocal]
  /\ calls = [p \in Procs |-> <<>>]
  /\ obs = [p \in Procs |-> NoObs]
  /\ last = NoOp

\* The operations of Engine on such a value, one at a time.
NextUnloaded ==
  \/ \E name \in NameArgs, modelId \in ModelArgs : last = NoOp /\ SwitchProvider(name, modelId)
  \/ \E modelId \in ModelArgs : last = NoOp /\ SwitchModel(modelId)
  \/ \E getter \in Getters : last = NoOp /\ Getter(getter)
  \/ \E event \in Events, params \in ParamTexts :
       last = NoOp /\ DispatchAndHandle(MainProc, event, params)
  \/ Proceed

SpecUnloaded == InitUnloaded /\ [][NextUnloaded]_vars

\* Two callers share the engine: the second enters DispatchAndHandle while
\* the dispatch of the first is under way, and the steps of the two
\* dispatches interleave.
OtherProc == "p2"

NextConcurrent ==
  \/ NewEngineFromConfig("", "")
  \/ /\ Initialized /\ last.op = "NewEngineFromConfig"
     /\ QueryBegin(MainProc, PlainText)
  \/ /\ local[MainProc].pc # "idle" /\ Len(calls[MainProc]) > 1
     /\ obs[OtherProc].status = "none"
     /\ QueryBegin(OtherProc, PlainText)
  \/ \E p \in Procs : QueryAttempt(p)
  \/ \E p \in Procs, outcome \in Outcomes : QueryReply(p, outcome)

SpecConcurrent == Init /\ [][NextConcurrent]_vars

\* One query dispatch on a default engine, for every params text.
NextParams ==
  \/ NewEngineFromConfig("", "")
  \/ \E params \in AllParamTexts :
       /\ Initialized /\ last.op = "NewEngineFromConfig"
       /\ DispatchAndHandle(MainProc, "query", params)
  \/ QueryAttempt(MainProc)
  \/ \E outcome \in Outcomes : QueryReply(MainProc, outcome)

SpecParams == Init /\ [][NextParams]_vars

\* One query dispatch on an engine constructed with any arguments; the
\* handler goes on while it can and every gateway call that was made comes
\* back.
NextLive ==
  \/ \E name \in NameArgs, modelId \in ModelArgs : NewEngineFromConfig(name, modelId)
  \/ \E params \in ParamTexts :
       /\ Initialized /\ last.op = "NewEngineFromConfig"
       /\ DispatchAndHandle(MainProc, "query", params)
  \/ QueryAttempt(MainProc)
  \/ \E outcome \in Outcomes : QueryReply(MainProc, outcome)

SpecLive ==
  /\ Init /\ [][NextLive]_vars
  /\ WF_vars(QueryAttempt(MainProc))
  /\ WF_vars(\E outcome \in Outcomes : QueryReply(MainProc, outcome))

----------------------------------------------------------------------------
\* Properties

\* The caller p is in, or has left, a query dispatch.
InQuery(p) == obs[p].event = "query" /\ obs[p].status # "none"

\* The dispatch of p has returned to its caller or unwound by a panic.
QueryEnded(p) == obs[p].event = "query" /\ obs[p].status \in {"returned", "panicked"}

\* The model list of the record a name lookup of the given name finds first.
ModelsOf(name) ==
  LET c == config[1]
      i == CHOOSE k \in 1..Len(c) : c[k].Name = name /\ \A j \in 1..(k - 1) : c[j].Name # name
  IN c[i].Model

\* The model list of the current provider when the dispatch of p started.
ModelsAtStart(p) == ModelsOf(obs[p].pre.providerName)

\* C1: once a query dispatch has returned or unwound, whatever the gateway
\* outcomes were, the engine's model id is the one it had immediately before
\* the dispatch started.
C1_Restored == \A p \in Procs : QueryEnded(p) => ModelId = obs[p].pre.ModelId

\* A dispatch that rotated to a second model and then panicked reading the reply.
C1_Witness ==
  /\ obs[MainProc].event = "query"
  /\ obs[MainProc].status = "panicked"
  /\ Len(calls[MainProc]) = 2
  /\ calls[MainProc][2].model # obs[MainProc].pre.ModelId

\* C2: one query dispatch issues at most min(3, n) gateway calls, n the
\* length of the current provider's model list at the start of the dispatch.
C2_AttemptBound ==
  \A p \in Procs : InQuery(p) => Len(calls[p]) <= Min(3, Len(ModelsAtStart(p)))

\* A dispatch over a list of four models that stopped after three failed calls.
C2_Witness ==
  /\ QueryEnded(MainProc)
  /\ Len(ModelsAtStart(MainProc)) = 4
  /\ Len(calls[MainProc]) = 3
  /\ \A i \in 1..3 : calls[MainProc][i].outcome = "fail"

\* C3: the models passed to the gateway in one dispatch start with the
\* original model (the engine still holds it at the first call) and never
\* repeat, so every later call uses a model that is neither the original
\* nor one already attempted.
C3_NoRepeat ==
  \A p \in Procs : InQuery(p) =>
    /\ Len(calls[p]) >= 1 => calls[p][1].model = obs[p].pre.ModelId
    /\ Len(calls[p]) = 1 /\ local[p].pc = "wait" => ModelId = obs[p].pre.ModelId
    /\ \A i, j \in 1..Len(calls[p]) : i < j => calls[p][i].model # calls[p][j].model

\* Three calls in one dispatch over a list in which a model id occurs twice.
C3_Witness ==
  /\ InQuery(MainProc)
  /\ Len(calls[MainProc]) = 3
  /\ Len(ModelsAtStart(MainProc)) > Cardinality(Range(ModelsAtStart(MainProc)))

\* C4: between operations of an initialized engine the current model id is
\* in the model list of the provider a name lookup of the current provider
\* name finds.
C4_ModelOfProvider ==
  Initialized /\ AllIdle =>
    /\ \E i \in 1..Len(config[1]) : config[1][i].Name = providerName
    /\ ModelId \in Range(ModelsOf(providerName))

\* After a switch to the second record's provider, a dispatch that rotated has returned.
C4_Witness ==
  /\ Initialized /\ AllIdle
  /\ Len(config[1]) = 2 /\ providerName = config[1][2].Name /\ providerName # config[1][1].Name
  /\ QueryEnded(MainProc)
  /\ Len(calls[MainProc]) >= 2

\* Every gateway call of the dispatch of p has come back as a failure.
AllCallsFailed(p) == \A i \in 1..Len(calls[p]) : calls[p][i].outcome = "fail"

\* C5: a query dispatch that ends after at least one gateway call, none of
\* them successful, fails with the all-attempts-failed error wrapping the
\* error of the last failed call, also when the loop stopped early because
\* no untried model was left.
C5_AllFailedWrapsLast ==
  \A p \in Procs :
    QueryEnded(p) /\ Len(calls[p]) >= 1 /\ AllCallsFailed(p) =>
      /\ obs[p].status = "returned"
      /\ obs[p].rsp = <<>>
      /\ obs[p].err = ErrAllFailed(calls[p][Len(calls[p])].err)

\* The gateway failed for the original model and succeeded for every other one.
OnlyOriginalFails(p) ==
  \A i \in 1..Len(calls[p]) :
    calls[p][i].outcome = IF calls[p][i].model = obs[p].pre.ModelId THEN "fail" ELSE "ok"

\* C6: with at least two distinct models in the current provider's list, a
\* gateway that fails for the original model and succeeds for every other
\* one makes the dispatch return a success result with attempts = 2 and a
\* model_used other than the original, and the engine's model id is the
\* original one afterwards.
C6_SecondAttemptSucceeds ==
  \A p \in Procs :
    /\ QueryEnded(p)
    /\ Len(calls[p]) >= 1
    /\ Cardinality(Range(ModelsAtStart(p))) >= 2
    /\ OnlyOriginalFails(p)
    => /\ obs[p].status = "returned"
       /\ obs[p].err = Nil
       /\ Len(obs[p].rsp) = 1
       /\ obs[p].rsp[1].attempts = 2
       /\ obs[p].rsp[1].model_used # obs[p].pre.ModelId
       /\ obs[p].rsp[1].model_used = calls[p][2].model
       /\ ModelId = obs[p].pre.ModelId

\* The scenario of C6 has run to its end over a list of three distinct models.
C6_Witness ==
  /\ QueryEnded(MainProc)
  /\ Cardinality(Range(ModelsAtStart(MainProc))) = 3
  /\ Len(calls[MainProc]) = 2
  /\ OnlyOriginalFails(MainProc)

\* C7: with exactly one model in the current provider's list the dispatch
\* never rotates and calls the gateway at most once; when that call fails
\* the dispatch fails with the all-attempts-failed error.
C7_SingleModel ==
  \A p \in Procs :
    InQuery(p) /\ Len(ModelsAtStart(p)) = 1 =>
      /\ Len(calls[p]) <= 1
      /\ ModelId = obs[p].pre.ModelId
      /\ Len(calls[p]) = 1 /\ calls[p][1].outcome = "fail" =>
           /\ local[p].pc = "idle"
           /\ obs[p].status = "returned"
           /\ obs[p].rsp = <<>>
           /\ obs[p].err = ErrAllFailed(calls[p][1].err)

\* The single model's call has failed and the dispatch has returned.
C7_Witness ==
  /\ QueryEnded(MainProc)
  /\ Len(ModelsAtStart(MainProc)) = 1
  /\ Len(calls[MainProc]) = 1
  /\ calls[MainProc][1].outcome = "fail"

\* C8: SwitchModel(m) with m not in the current provider's model list
\* returns an error and leaves provider name, API key, base URL, model id
\* and the configuration as they were.
C8_SwitchModelRejects ==
  last.op = "SwitchModel" /\ last.model \notin Range(ModelsOf(last.pre.providerName)) =>
    /\ last.err # Nil
    /\ EngineState = last.pre
    /\ config = <<file>>

\* A model id that another provider of the configuration lists was rejected.
C8_Witness ==
  /\ last.op = "SwitchModel"
  /\ last.err # Nil
  /\ \E i \in 1..Len(config[1]) : last.model \in Range(config[1][i].Model)

\* C9: a SwitchProvider that fails, for whichever reason, leaves provider
\* name, API key, base URL and model id unchanged.
C9_SwitchProviderAtomic ==
  last.op = "SwitchProvider" /\ last.err # Nil => EngineState = last.pre /\ config = <<file>>

\* A switch to another, existing provider failed on the model id.
C9_Witness ==
  /\ last.op = "SwitchProvider"
  /\ last.err = ErrUnsupportedModel
  /\ last.name # last.pre.providerName

\* The records of the configuration that carry the name and list the model.
RecordsWith(name, modelId) ==
  {i \in 1..Len(config[1]) :
     config[1][i].Name = name /\ modelId \in Range(config[1][i].Model)}

\* C10 as claimed: for every record p of the configuration and every model m
\* of p, SwitchProvider(p.name, m) succeeds and leaves p.name as the current
\* provider name and m as the current model id, also when records share a name.
C10_AnyRecord ==
  last.op = "SwitchProvider" /\ RecordsWith(last.name, last.model) # {} =>
    /\ last.err = Nil
    /\ providerName = last.name
    /\ ModelId = last.model

\* C10 amended: for every record p that is the first of its name in the
\* configuration and every model m of p, SwitchProvider(p.name, m) succeeds
\* and leaves p.name as the current provider name, m as the current model id
\* and p's key and URL as the current credentials.
C10_FirstRecord ==
  \A i \in 1..(IF Initialized THEN Len(config[1]) ELSE 0) :
    /\ last.op = "SwitchProvider"
    /\ i \in RecordsWith(last.name, last.model)
    /\ \A j \in 1..(i - 1) : config[1][j].Name # last.name
    => /\ last.err = Nil
       /\ providerName = last.name
       /\ ModelId = last.model
       /\ apiKey = config[1][i].ApiKey
       /\ BaseUrl = config[1][i].BaseUrl

\* A switch by a name that two records share has succeeded and changed the model.
C10_Witness ==
  /\ last.op = "SwitchProvider"
  /\ last.err = Nil
  /\ Cardinality({i \in 1..Len(config[1]) : config[1][i].Name = last.name}) = 2
  /\ last.model # "" /\ last.model # last.pre.ModelId

\* An Initialize that was given neither a provider name nor a model id.
DefaultInit == last.op = "NewEngineFromConfig" /\ last.name = "" /\ last.model = ""

\* C11 as stated: for every document with at least one record, Initialize
\* with an empty provider name and an empty model id succeeds and selects
\* the first record and its first model, with that record's key and URL.
C11_AnyFirstRecord ==
  DefaultInit /\ Len(file) > 0 =>
    /\ last.err = Nil
    /\ Initialized
    /\ providerName = file[1].Name
    /\ ModelId = file[1].Model[1]
    /\ apiKey = file[1].ApiKey
    /\ BaseUrl = file[1].BaseUrl

\* C11: for every document whose first record lists at least one model,
\* Initialize with an empty provider name and an empty model id succeeds and
\* selects the first record and its first model, with the API key and the
\* base URL copied from that record; when the first record lists no model
\* it fails with the no-model error and no engine is constructed.
C11_DefaultInit ==
  DefaultInit /\ Len(file) > 0 =>
    IF Len(file[1].Model) > 0
    THEN /\ last.err = Nil
         /\ config = <<file>>
         /\ providerName = file[1].Name
         /\ ModelId = file[1].Model[1]
         /\ apiKey = file[1].ApiKey
         /\ BaseUrl = file[1].BaseUrl
    ELSE /\ last.err = Wrap("get default model", ErrNoModel)
         /\ ~Initialized
         /\ EngineState = NoEngine

\* A default Initialize on a document of two differently named records, the
\* first with two models.
C11_Witness ==
  /\ DefaultInit
  /\ Len(file) = 2
  /\ file[1].Name # file[2].Name
  /\ Len(file[1].Model) = 2
  /\ file[1].Model[1] # file[1].Model[2]
  /\ Initialized
  /\ ModelId = file[1].Model[1]

\* C12: a SwitchModel(m) that succeeded has set the model id to m and has
\* left the provider name, the API key, the base URL and the configuration
\* as they were.
C12_SwitchModelFrame ==
  last.op = "SwitchModel" /\ last.err = Nil =>
    /\ ModelId = last.model
    /\ providerName = last.pre.providerName
    /\ apiKey = last.pre.apiKey
    /\ BaseUrl = last.pre.BaseUrl
    /\ config = <<file>>

\* A SwitchModel that succeeded and changed the model, on the second provider.
C12_Witness ==
  /\ last.op = "SwitchModel"
  /\ last.err = Nil
  /\ ModelId # last.pre.ModelId
  /\ Len(config[1]) = 2
  /\ providerName = config[1][2].Name
  /\ providerName # config[1][1].Name

\* The record a lookup of the current provider name selects: the first of that name.
CurrentRecord ==
  LET c == config[1]
  IN c[CHOOSE k \in 1..Len(c) : c[k].Name = providerName /\ \A j \in 1..(k - 1) : c[j].Name # providerName]

\* C13: after Initialize and any sequence of SwitchProvider, SwitchModel and
\* dispatch operations, the engine's API key and base URL are those of the
\* configured record that the current provider name selects.
C13_CredentialsOfProvider ==
  Initialized =>
    /\ \E k \in 1..Len(config[1]) : config[1][k].Name = providerName
    /\ apiKey = CurrentRecord.ApiKey
    /\ BaseUrl = CurrentRecord.BaseUrl

\* A SwitchProvider that succeeded and moved the engine to another record's credentials.
C13_Witness ==
  /\ last.op = "SwitchProvider"
  /\ last.err = Nil
  /\ providerName # last.pre.providerName
  /\ apiKey # last.pre.apiKey
  /\ BaseUrl # last.pre.BaseUrl

\* Both callers' dispatches have returned or unwound.
BothEnded == \A p \in Procs : QueryEnded(p)

\* C14: two query dispatches on one engine that interleave can leave, after
\* both have returned, a model id other than the one before either started
\* (the state of C14_Witness); the model id left is then the one the second
\* dispatch saved as its original after the first had rotated.
C14_UnserializedRestore ==
  BothEnded =>
    /\ ModelId \in {obs[MainProc].pre.ModelId, obs[OtherProc].pre.ModelId}
    /\ ModelId # obs[MainProc].pre.ModelId =>
         /\ local[OtherProc].originalModelId = ModelId
         /\ \E i \in 2..Len(calls[MainProc]) : calls[MainProc][i].model = ModelId

\* Both dispatches have returned and the engine is left on a model the first
\* dispatch rotated to, not on the model it had before either started.
C14_Witness ==
  /\ BothEnded
  /\ obs[MainProc].status = "returned"
  /\ obs[OtherProc].status = "returned"
  /\ ModelId # obs[MainProc].pre.ModelId
  /\ ModelId = obs[OtherProc].pre.ModelId

\* C15: a dispatch of an event that is not registered returns match false,
\* a nil result and no error, has entered no handler and made no gateway
\* call and has left the engine as it was; a dispatch of "query" or "list"
\* returns match true with what the handler returned: the list view, or the
\* query handler's result with a nil error, or its error with a nil result.
C15_Dispatch ==
  \A p \in Procs :
    obs[p].status = "returned" =>
      IF obs[p].event \in {"query", "list"} THEN
        /\ obs[p].match
        /\ obs[p].event = "list" => obs[p].rsp = <<ListResult(config[1])>> /\ obs[p].err = Nil
        /\ obs[p].event = "query" =>
             \/ obs[p].rsp = <<>> /\ obs[p].err # Nil
             \/ /\ obs[p].err = Nil
                /\ calls[p][Len(calls[p])].outcome = "ok"
                /\ obs[p].rsp = <<[query |-> local[p].query, reply |-> "reply", think |-> "",
                                   model_used |-> calls[p][Len(calls[p])].model,
                                   provider_used |-> providerName,
                                   attempts |-> Len(calls[p])]>>
      ELSE
        /\ ~obs[p].match
        /\ obs[p].rsp = <<>>
        /\ obs[p].err = Nil
        /\ local[p] = InitLocal
        /\ calls[p] = <<>>
        /\ EngineState = obs[p].pre
        /\ config = <<file>>

\* A dispatch of the unregistered event has returned on an engine of two providers.
C15_Witness ==
  /\ obs[MainProc].event = "unknown"
  /\ obs[MainProc].status = "returned"
  /\ ~obs[MainProc].match
  /\ Len(config[1]) = 2
  /\ ModelId # ""

\* C16: a list dispatch makes no gateway call and leaves the provider name,
\* the API key, the base URL, the model id and the configuration unchanged;
\* the current_provider, current_model and current_base_url it reports are
\* the engine's at the time of the call.
C16_ListReadOnly ==
  \A p \in Procs :
    obs[p].event = "list" /\ obs[p].status = "returned" =>
      /\ calls[p] = <<>>
      /\ local[p] = InitLocal
      /\ EngineState = obs[p].pre
      /\ config = <<file>>
      /\ obs[p].err = Nil
      /\ Len(obs[p].rsp) = 1
      /\ obs[p].rsp[1].current_provider = obs[p].pre.providerName
      /\ obs[p].rsp[1].current_model = obs[p].pre.ModelId
      /\ obs[p].rsp[1].current_base_url = obs[p].pre.BaseUrl

\* A list dispatch has returned on an engine that is on the second record,
\* not on that record's first model.
C16_Witness ==
  /\ obs[MainProc].event = "list"
  /\ obs[MainProc].status = "returned"
  /\ Len(config[1]) = 2
  /\ providerName = config[1][2].Name
  /\ providerName # config[1][1].Name
  /\ ModelId # config[1][2].Model[1]

\* The index of the record the current provider name selects.
CurrentIndex ==
  LET c == config[1]
  IN CHOOSE k \in 1..Len(c) : c[k].Name = providerName /\ \A j \in 1..(k - 1) : c[j].Name # providerName

\* C17: the list view has one entry per configured record, in configuration
\* order; entry i carries the name, the base URL and the model list of
\* record i itself, is_current is true exactly when record i is the selected
\* provider, and total_providers is the number of records. Claimed also for
\* documents in which two records share a name.
C17_EntryPerRecord ==
  \A p \in Procs :
    obs[p].event = "list" /\ obs[p].status = "returned" =>
      LET view == obs[p].rsp[1]
          c == config[1]
      IN /\ view.total_providers = Len(c)
         /\ Len(view.providers) = Len(c)
         /\ \A i \in 1..Len(c) :
              /\ view.providers[i].name = c[i].Name
              /\ view.providers[i].base_url = c[i].BaseUrl
              /\ view.providers[i].models = c[i].Model
              /\ view.providers[i].is_current = (i = CurrentIndex)

\* What a caller reads through the pointers GetAllProvidersInfo returns:
\* the ProviderConfig records, all four fields of them.
ProvidersInfoView(c) ==
  [name \in DOMAIN GetAllProvidersInfo(c) |-> c[GetAllProvidersInfo(c)[name]]]

\* The document c with other API keys and nothing else changed.
Rekeyed(c) == [i \in 1..Len(c) |-> [c[i] EXCEPT !.ApiKey = "x" \o ToString(i)]]

\* C18: no API key is observable through the introspection views: what
\* GetAllProvidersInfo returns and what the list command returns are the
\* same for two configurations that differ only in their API keys.
C18_KeysNotObservable ==
  \A p \in Procs :
    obs[p].event = "list" /\ obs[p].status = "returned" =>
      /\ obs[p].rsp = <<ListResult(Rekeyed(config[1]))>>
      /\ ProvidersInfoView(config[1]) = ProvidersInfoView(Rekeyed(config[1]))

\* The operations C19 names.
EngineOps == Getters \cup {"SwitchProvider", "SwitchModel", "query", "list"}

\* The error chain ends in the configuration-not-loaded error.
IsConfigNotLoaded(err) == err # Nil /\ <<err[Len(err)]>> = ErrConfigNotLoaded

\* C19 as stated: on an engine whose configuration was not loaded every
\* operation, GetCurrentProviderName and the query command included, fails
\* with the configuration-not-loaded error, makes no gateway call and
\* leaves the state unchanged.
C19_EveryOperationFails ==
  ~Initialized /\ last.op \in EngineOps =>
    /\ IsConfigNotLoaded(last.err)
    /\ \A p \in Procs : calls[p] = <<>>
    /\ EngineState = last.pre

\* C19: on an engine whose configuration was not loaded, SwitchProvider,
\* SwitchModel, the getters that return an error and the list command fail
\* with the configuration-not-loaded error, the query command fails with
\* that error wrapped or, when its params do not decode, with the decoding
\* error, and GetCurrentProviderName returns the empty provider name and
\* no error; none makes a gateway call or changes the state.
C19_Unloaded ==
  ~Initialized /\ last.op \in EngineOps =>
    /\ \A p \in Procs : calls[p] = <<>>
    /\ EngineState = last.pre
    /\ config = NoConfig
    /\ CASE last.op = "GetCurrentProviderName" -> last.err = Nil /\ last.name = ""
         [] last.op = "query" ->
              /\ obs[MainProc].err = last.err
              /\ obs[MainProc].rsp = <<>>
              /\ \/ last.err = Wrap("get available models", ErrConfigNotLoaded)
                 \/ /\ last.err = JsonUnmarshal(obs[MainProc].params).err
                    /\ last.err # Nil
         [] last.op = "list" ->
              /\ obs[MainProc].err = last.err
              /\ obs[MainProc].rsp = <<>>
              /\ last.err = ErrConfigNotLoaded
         [] OTHER -> last.err = ErrConfigNotLoaded

\* A SwitchProvider has failed on an unloaded engine whose exported fields were set.
C19_Witness ==
  /\ ~Initialized
  /\ last.op = "SwitchProvider"
  /\ last.name # ""
  /\ last.model # ""
  /\ last.err = ErrConfigNotLoaded
  /\ ModelId # ""
  /\ BaseUrl # ""

\* The prompt texts that are not valid JSON.
PlainPrompts == {q \in PromptTexts : ~JsonValid(q)}

\* C20: for every prompt text q that is not valid JSON, a query dispatch
\* whose params are q verbatim and one whose params are the JSON object with
\* the member query equal to q take the same prompt, q: no decoding error,
\* every gateway call carries q and the query field of the result is q.
C20_EncodingsAgree ==
  \A p \in Procs :
    InQuery(p) =>
      \A q \in PlainPrompts :
        obs[p].params \in {q, QueryObject(q)} =>
          /\ local[p].query = q
          /\ obs[p].err # ErrUnmarshalType
          /\ \A i \in 1..Len(calls[p]) : calls[p][i].prompt = q
          /\ obs[p].rsp # <<>> => obs[p].rsp[1].query = q

\* A dispatch given the JSON object of a prompt with a quote in it has
\* succeeded at its second gateway call.
C20_Witness ==
  /\ QueryEnded(MainProc)
  /\ <<"h", "\"", "i">> \in PlainPrompts
  /\ obs[MainProc].params = QueryObject(<<"h", "\"", "i">>)
  /\ Len(calls[MainProc]) = 2
  /\ obs[MainProc].rsp # <<>>
  /\ obs[MainProc].rsp[1].query = <<"h", "\"", "i">>

\* C21: at every step of a query dispatch the provider name, the API key,
\* the base URL and the configuration are what they were when it started,
\* and every gateway call of the dispatch was made with the API key and the
\* base URL of the current provider's record and with a model id of that
\* record's model list.
C21_RotationInsideProvider ==
  \A p \in Procs :
    InQuery(p) =>
      /\ providerName = obs[p].pre.providerName
      /\ apiKey = obs[p].pre.apiKey
      /\ BaseUrl = obs[p].pre.BaseUrl
      /\ config = <<file>>
      /\ \A i \in 1..Len(calls[p]) :
           /\ calls[p][i].apiKey = CurrentRecord.ApiKey
           /\ calls[p][i].baseUrl = CurrentRecord.BaseUrl
           /\ calls[p][i].model \in Range(CurrentRecord.Model)

\* A dispatch on the second of two differently named records has made three
\* gateway calls, each with another model.
C21_Witness ==
  /\ InQuery(MainProc)
  /\ Len(config[1]) = 2
  /\ config[1][1].Name # config[1][2].Name
  /\ providerName = config[1][2].Name
  /\ Len(calls[MainProc]) = 3
  /\ Cardinality({calls[MainProc][i].model : i \in 1..3}) = 3

\* The gateway call i of the dispatch of p came back with a completion.
Succeeded(p, i) == calls[p][i].outcome = "ok"

\* C22: once a gateway call of a dispatch has succeeded the dispatch has
\* returned a result and no error and has made no further call: the
\* successful call is the last one and every call before it failed; in the
\* result model_used is the model of the successful call, provider_used is
\* the current provider name and attempts is the number of gateway calls
\* of the dispatch. A dispatch that returned an error had no successful call.
C22_SuccessReturns ==
  \A p \in Procs :
    InQuery(p) =>
      /\ \A i \in 1..Len(calls[p]) :
           Succeeded(p, i) =>
             /\ i = Len(calls[p])
             /\ \A j \in 1..(i - 1) : calls[p][j].outcome = "fail"
             /\ obs[p].status = "returned"
             /\ obs[p].err = Nil
             /\ Len(obs[p].rsp) = 1
             /\ obs[p].rsp[1].model_used = calls[p][i].model
             /\ obs[p].rsp[1].provider_used = providerName
             /\ obs[p].rsp[1].attempts = Len(calls[p])
      /\ obs[p].err # Nil => \A i \in 1..Len(calls[p]) : ~Succeeded(p, i)

\* A dispatch has returned the result of its third gateway call.
C22_Witness ==
  /\ QueryEnded(MainProc)
  /\ Len(calls[MainProc]) = 3
  /\ Succeeded(MainProc, 3)
  /\ obs[MainProc].rsp # <<>>
  /\ obs[MainProc].rsp[1].attempts = 3
  /\ obs[MainProc].rsp[1].model_used # ModelId

\* C23: when DispatchAndHandle reports that no handler matched the command,
\* main() writes the event-not-found response, never the success response.
C23_UnmatchedIsNotFound ==
  \A p \in Procs :
    obs[p].status = "returned" /\ ~obs[p].match /\ obs[p].response # "none" =>
      obs[p].response = "EventNotFound"

\* The bound on the loop iterations of the dispatch of p: min(3, n), n the
\* length of the current provider's model list.
IterationBound(p) == Min(MaxAttempts, Len(ModelsAtStart(p)))

\* The dispatch of p has made no more iterations and calls than the bound;
\* it unwinds by a panic only on a completion without choices, and when it
\* returns it returns a result or an error, not both.
BoundedDispatch(p) ==
  /\ local[p].attempt <= IterationBound(p)
  /\ Len(calls[p]) <= IterationBound(p)
  /\ obs[p].status = "panicked" =>
       Len(calls[p]) > 0 /\ calls[p][Len(calls[p])].outcome = "empty"
  /\ obs[p].status = "returned" => (obs[p].rsp # <<>>) # (obs[p].err # Nil)

\* C24: every query dispatch terminates. When every gateway call comes
\* back, a dispatch that entered its loop ends, whatever the outcomes and
\* the models picked, after at most min(3, n) iterations; with calls that
\* succeed or fail it returns a result or an error.
C24_Terminates ==
  /\ [](\A p \in Procs : InQuery(p) => BoundedDispatch(p))
  /\ \A p \in Procs : (obs[p].status = "running") ~> QueryEnded(p)

\* A dispatch has returned an error after three failed gateway calls on a
\* list of four models.
C24_Witness ==
  /\ obs[MainProc].status = "returned"
  /\ obs[MainProc].event = "query"
  /\ Len(ModelsAtStart(MainProc)) = 4
  /\ Len(calls[MainProc]) = 3
  /\ AllCallsFailed(MainProc)
  /\ obs[MainProc].err = ErrAllFailed(GatewayErr(3))

\* The kind of the top-level value of a JSON text.
TopKind(params) == Tokenize(params, 1, <<>>).toks[1].t

\* The JSON texts explored that are a number, a quoted string, an array or a boolean.
NonObjectTexts == {t \in JsonTexts : TopKind(t) \in {"number", "string", "[", "true", "false"}}

\* The JSON texts explored that are null or an object without a member query.
NoQueryTexts ==
  {<<"n", "u", "l", "l">>, <<"{", "}">>, <<"{", "\"", "q", "\"", ":", "\"", "h", "i", "\"", "}">>}

\* C25: a query dispatch whose params are valid JSON but a number, a quoted
\* string, an array or a boolean returns the decoding error and a nil
\* result, makes no gateway call and leaves the engine as it was; one whose
\* params are JSON null or an object without a member query goes on with
\* the empty prompt.
C25_NonObjectRejected ==
  \A p \in Procs :
    InQuery(p) =>
      /\ obs[p].params \in NonObjectTexts =>
           /\ obs[p].status = "returned"
           /\ obs[p].err = ErrUnmarshalType
           /\ obs[p].rsp = <<>>
           /\ calls[p] = <<>>
           /\ EngineState = obs[p].pre
           /\ config = <<file>>
      /\ obs[p].params \in NoQueryTexts =>
           /\ obs[p].err # ErrUnmarshalType
           /\ local[p].query = <<>>
           /\ local[p].originalModelId = obs[p].pre.ModelId
           /\ \A i \in 1..Len(calls[p]) : calls[p][i].prompt = <<>>
           /\ obs[p].rsp # <<>> => obs[p].rsp[1].query = <<>>

\* A dispatch given a JSON array has returned on an engine with two models.
C25_Witness ==
  /\ InQuery(MainProc)
  /\ obs[MainProc].params = <<"[", "\"", "h", "i", "\"", "]">>
  /\ obs[MainProc].params \in NonObjectTexts
  /\ Cardinality(NonObjectTexts) = 5
  /\ NoQueryTexts \subseteq JsonTexts
  /\ obs[MainProc].err = ErrUnmarshalType
  /\ Len(ModelsOf(providerName)) = 2

====
